---- MODULE Spec2Model ----
(***************************************************************************)
(* The Pin Manager of the repository (src/unnamed/part_003, class          *)
(* PinManager): the in-memory direct/recursive pin sets, the membership    *)
(* query isPinnedWithType, the DAG walk behind getIndirectKeys and         *)
(* fetchCompleteDag, the persistence of the pin sets (flushPins/load),     *)
(* getInternalBlocks and checkPinType; and addAll (src/unnamed/part_000):  *)
(* the GC read lock around the import and the pinning of added roots.      *)
(*                                                                         *)
(* Seven specifications share the variables:                               *)
(*   Spec       pin / unpin and isPinnedWithType over any acyclic DAG;     *)
(*   SpecWalk   pin / unpin and the walks over any acyclic DAG;            *)
(*   SpecWalkFair  the walks under fair scheduling (termination);          *)
(*   SpecStore  flushPins / load / getInternalBlocks / restart;            *)
(*   SpecFlushes  two overlapping flushPins calls;                         *)
(*   SpecAdd    an addAll call over every source and option;               *)
(*   SpecAll    every operation of the Pin Manager, over one DAG.          *)
(***************************************************************************)
EXTENDS Integers, Sequences, FiniteSets, TLC

\* Number of content identifiers of the model.
NumCids == 3

CIDS == 1..NumCids

\* `let cid` (undefined) of isPinnedWithType: no confirming root.
NoCid == 0

\* Ceilings of the two p-queues. The source sets both to 300; the model
\* scales them to the size of its DAGs so that each ceiling is reached, and
\* gives them different values so that a queue built with the other
\* queue's ceiling shows.
WALK_DAG_CONCURRENCY_LIMIT == 3
IS_PINNED_WITH_TYPE_CONCURRENCY_LIMIT == 2

PinTypes == {"direct", "recursive", "indirect", "all"}

VARIABLES
  links,          \* the DAG: links[c] is the set of children of node c
  directPins,     \* PinManager.directPins
  recursivePins,  \* PinManager.recursivePins
  pc,             \* the operation in progress, "idle" when none
  queue,          \* p-queue of a walk: tasks not yet started (FIFO)
  pending,        \* p-queue: tasks in flight, as a bag CID -> count
  ending,         \* p-queue: walk tasks that returned and still count as
                  \* running until the queue takes note (_next)
  roots,          \* recursive keys whose task has not started yet
  indirectKeys,   \* getIndirectKeys: the set being collected
  cid,            \* isPinnedWithType: the confirming root (NoCid: none);
                  \* fetchCompleteDag: the root of the walk
  key,            \* isPinnedWithType: the queried key
  type,           \* isPinnedWithType: the queried type
  failed,         \* some dag.get of the current walk, or some hasDescendant
                  \* of the current scan, was rejected
  tested,         \* <<root, candidate>> pairs given to hasDescendant
  visits,         \* nodes the walks of the operation got from dag.get
  blocks,         \* pin-set nodes stored through dag.put
  pinRoot,        \* datastore: the root kept under /local/pins (NoRoot: no key)
  dLink,          \* flushPins: the node storeSet builds for the direct pins
  rLink,          \* flushPins: the node storeSet builds for the recursive pins
  mh,             \* load, getInternalBlocks: the root read from the datastore
  loaded,         \* load: the names whose loadSet has resolved
  snap,           \* the pin sets as they were when flushPins / load was called
  flushed,        \* snap of the flushPins whose datastore write came last
  fresh,          \* the manager is as constructed: no pin, unpin or load yet
  nmut,           \* SpecStore: pin / unpin calls so far
  adding,         \* the addAll call (part_000): its options, what is left of
                  \* its source, the GC read lock, the pin.add calls and the
                  \* entries yielded
  flush2,         \* a second flushPins call, started while the first is in
                  \* progress: its position, links and snapshot
  ret             \* what the last operation returned to its caller

vars == <<links, directPins, recursivePins, pc, queue, pending, ending, roots,
          indirectKeys, cid, key, type, failed, tested, visits, blocks,
          pinRoot, dLink, rLink, mh, loaded, snap, flushed, fresh, nmut,
          flush2, adding, ret>>

storeVars == <<blocks, pinRoot, dLink, rLink, mh, loaded, snap, flushed, fresh,
               nmut, flush2>>

\* What no operation of the Pin Manager changes: the DAG and the addAll
\* call.
env == <<links, adding>>

walkVars == <<queue, pending, ending, roots, indirectKeys, cid, key, type,
              failed, tested, visits>>

----------------------------------------------------------------------------
\* Helpers

RECURSIVE SortedSeq(_)
SortedSeq(S) ==
  IF S = {} THEN <<>>
  ELSE LET m == CHOOSE x \in S : \A y \in S : x <= y
       IN <<m>> \o SortedSeq(S \ {m})

EmptyBag == [c \in CIDS |-> 0]

BagSize(b) == Cardinality(UNION {{<<c, i>> : i \in 1..b[c]} : c \in CIDS})

BagAdd(b, c) == [b EXCEPT ![c] = @ + 1]

BagRemove(b, c) == [b EXCEPT ![c] = @ - 1]

\* Strict descendants of c in the DAG.
RECURSIVE Descendants(_)
Descendants(c) == links[c] \cup UNION {Descendants(d) : d \in links[c]}

\* Everything reachable from a set of roots, the roots included.
Reachable(R) == R \cup UNION {Descendants(r) : r \in R}

\* Number of distinct paths from r to c in the DAG (1 when r = c).
RECURSIVE Paths(_, _)
Paths(r, c) ==
  LET RECURSIVE Sum(_)
      Sum(S) == IF S = {} THEN 0
                ELSE LET d == CHOOSE x \in S : TRUE
                     IN Paths(d, c) + Sum(S \ {d})
  IN IF r = c THEN 1 ELSE Sum(links[r])

\* Number of paths from the roots in R to any node: the tasks of the walks
\* from those roots when no node is skipped.
RECURSIVE PathsFrom(_)
PathsFrom(R) ==
  LET RECURSIVE Sum(_, _)
      Sum(r, S) == IF S = {} THEN 0
                   ELSE LET c == CHOOSE x \in S : TRUE
                        IN Paths(r, c) + Sum(r, S \ {c})
  IN IF R = {} THEN 0
     ELSE LET r == CHOOSE x \in R : TRUE
          IN Sum(r, CIDS) + PathsFrom(R \ {r})

NoSnap == [d |-> {}, r |-> {}]

\* No second flushPins call. The nodes are those of the codec below.
NoFlush2 == [pc |-> "idle",
             dLink |-> [kind |-> "none", items |-> <<>>, sub |-> <<>>],
             rLink |-> [kind |-> "none", items |-> <<>>, sub |-> <<>>],
             snap |-> NoSnap]

\* before: the pin sets when the operation was called; fetched: the
\* operation called dag.get; error: the error it failed with; dsCode: how
\* datastore.get ended; nodes: the blocks getInternalBlocks returned;
\* decoded: the sets a failed load had decoded; arg: the value checkPinType
\* was given.
NoRet == [op |-> "none", key |-> NoCid, type |-> "", pinned |-> FALSE,
          reasonType |-> "", reasonCid |-> NoCid, keys |-> {},
          resolved |-> FALSE, failed |-> FALSE, tested |-> {},
          fresh |-> FALSE, before |-> NoSnap, fetched |-> FALSE,
          error |-> "", dsCode |-> "", nodes |-> {}, decoded |-> {},
          arg |-> [isString |-> TRUE, text |-> ""]]

----------------------------------------------------------------------------
\* Variant: a queued task is started whatever the number in flight.
RECURSIVE StartQueued_unbounded(_, _, _)
StartQueued_unbounded(q, p, limit) ==
  IF q = <<>> THEN <<q, p>>
  ELSE StartQueued_unbounded(Tail(q), BagAdd(p, Head(q)), limit)

\* p-queue (dependency): _tryToStartAnother starts queued tasks, in FIFO
\* order, while fewer than `limit` are in flight.
RECURSIVE StartQueued(_, _, _)
StartQueued(q, p, limit) ==
  IF q = <<>> \/ BagSize(p) >= limit THEN <<q, p>>
  ELSE StartQueued(Tail(q), BagAdd(p, Head(q)), limit)

----------------------------------------------------------------------------
\* The DAG service and the pin-set codec, as the Pin Manager consumes them

\* Variant: only the first link of a node is followed.
ChildTasks_firstOnly(c) ==
  IF links[c] = {} THEN <<>> ELSE <<Head(SortedSeq(links[c]))>>

\* Variant: a link is not followed when its node was already recorded or
\* has a task waiting or in flight (a visited guard).
ChildTasks_guarded(c) ==
  SortedSeq({d \in links[c] : /\ d \notin indirectKeys
                               /\ pending[d] = 0
                               /\ \A i \in DOMAIN queue : queue[i] # d})

\* The child tasks a walk enqueues for node c, in link order: Links of a
\* dag-pb node (queue.addAll), dagCborLinks of a dag-cbor node (queue.add).
ChildTasks(c) == SortedSeq(links[c])

\* pinset.hasDescendant(parent, descendant): descendant is below parent.
HasDescendant(parent, descendant) == descendant \in Descendants(parent)

\* The pin-set codec (./pin-set). A node is [kind, items, sub]: a flat set
\* node carries its keys in `items`, a sharded one its buckets in `sub`;
\* every set node also links the empty placeholder node.
NoRoot == [kind |-> "none", items |-> <<>>, sub |-> <<>>]

EmptyNode == [kind |-> "empty", items |-> <<>>, sub |-> <<>>]

\* Largest flat set, and the number of buckets of a sharded one (scaled).
MaxItems == 1
Fanout == 2

Range(s) == {s[i] : i \in DOMAIN s}

\* Bucket of key c at the given depth of the encoding.
Hash(depth, c) == (c \div (Fanout ^ depth)) % Fanout

\* Variant: a key goes to the bucket of its position in the array.
RECURSIVE StoreItems_byArrival(_, _)
StoreItems_byArrival(keys, depth) ==
  IF Len(keys) <= MaxItems
    THEN [kind |-> "set", items |-> SortedSeq(Range(keys)), sub |-> <<>>]
    ELSE [kind |-> "set", items |-> <<>>,
          sub |-> [i \in 1..Fanout |->
                    LET b == [n \in 1..((Len(keys) - i + Fanout) \div Fanout)
                                |-> keys[(n - 1) * Fanout + i]]
                    IN IF b = <<>> THEN EmptyNode
                       ELSE StoreItems_byArrival(b, depth + 1)]]

\* pin-set storeItems: a flat node of sorted keys up to MaxItems keys,
\* otherwise one bucket per hash value, each encoded one level deeper.
RECURSIVE StoreItems(_, _)
StoreItems(keys, depth) ==
  IF Len(keys) <= MaxItems
    THEN [kind |-> "set", items |-> SortedSeq(Range(keys)), sub |-> <<>>]
    ELSE [kind |-> "set", items |-> <<>>,
          sub |-> [i \in 1..Fanout |->
                    LET InBucket(k) == Hash(depth, k) = i - 1
                        b == SelectSeq(keys, InBucket)
                    IN IF b = <<>> THEN EmptyNode
                       ELSE StoreItems(b, depth + 1)]]

\* pinset.storeSet(keys): the node heading the encoding of the keys.
StoreSet(keys) == StoreItems(keys, 0)

\* Every node of the encoding headed by n, the placeholder included.
RECURSIVE NodesOf(_)
NodesOf(n) ==
  IF n.kind = "none" THEN {}
  ELSE {n} \cup (IF n.kind = "set" THEN {EmptyNode} ELSE {})
           \cup UNION {NodesOf(n.sub[i]) : i \in DOMAIN n.sub}

RECURSIVE Items(_)
Items(n) == Range(n.items) \cup UNION {Items(n.sub[i]) : i \in DOMAIN n.sub}

\* The nodes below a set node: its buckets and theirs.
RECURSIVE Buckets(_)
Buckets(n) == UNION {{n.sub[i]} \cup Buckets(n.sub[i]) : i \in DOMAIN n.sub}

\* pinset.getInternalCids(rootNode): the empty node, the node of each of
\* the two links and every bucket below them.
GetInternalCids(rootNode) ==
  {EmptyNode} \cup UNION {{rootNode.sub[i]} \cup Buckets(rootNode.sub[i]) :
                           i \in DOMAIN rootNode.sub}

\* The keys of the encoding headed by n in the order a decoder meets them:
\* the node's own keys, then those of each bucket in turn.
RECURSIVE WalkItems(_)
WalkItems(n) ==
  LET RECURSIVE Below(_)
      Below(i) == IF i > Len(n.sub) THEN <<>>
                  ELSE WalkItems(n.sub[i]) \o Below(i + 1)
  IN n.items \o Below(1)

\* Variant: only the keys the linked node carries itself are decoded.
LoadSet_flatOnly(rootNode, name) ==
  Range(rootNode.sub[IF name = "direct" THEN 1 ELSE 2].items)

\* pinset.loadSet(rootNode, name): the keys below the link called `name`.
LoadSet(rootNode, name) ==
  Items(rootNode.sub[IF name = "direct" THEN 1 ELSE 2])

----------------------------------------------------------------------------
\* Pin / unpin of the layer above: add or remove a single entry.

AddPin(c, t) ==
  /\ IF t = "direct"
       THEN c \notin directPins /\ directPins' = directPins \cup {c}
            /\ UNCHANGED recursivePins
       ELSE c \notin recursivePins /\ recursivePins' = recursivePins \cup {c}
            /\ UNCHANGED directPins
  /\ fresh' = FALSE
  /\ ret' = NoRet

RmPin(c, t) ==
  /\ IF t = "direct"
       THEN c \in directPins /\ directPins' = directPins \ {c}
            /\ UNCHANGED recursivePins
       ELSE c \in recursivePins /\ recursivePins' = recursivePins \ {c}
            /\ UNCHANGED directPins
  /\ fresh' = FALSE
  /\ ret' = NoRet

\* Spec: callers serialise mutations with the queries and walks.
PinAdd(c, t) ==
  /\ pc = "idle"
  /\ AddPin(c, t)
  /\ UNCHANGED <<env, pc, walkVars, blocks, pinRoot, dLink, rLink, mh,
                 loaded, snap, flushed, nmut, flush2>>

PinRm(c, t) ==
  /\ pc = "idle"
  /\ RmPin(c, t)
  /\ UNCHANGED <<env, pc, walkVars, blocks, pinRoot, dLink, rLink, mh,
                 loaded, snap, flushed, nmut, flush2>>

----------------------------------------------------------------------------
\* isPinnedWithType

\* Variant: only the 'recursive' query looks into recursivePins first.
RecursiveHit_notAll(k, t) == t = "recursive" /\ k \in recursivePins

RecursiveHit(k, t) == (t = "recursive" \/ t = "all") /\ k \in recursivePins

\* Variant: a recursive pin of the same key hides the direct one.
DirectHit_shadowed(k, t) ==
  (t = "direct" \/ t = "all") /\ k \in directPins /\ k \notin recursivePins

DirectHit(k, t) == (t = "direct" \/ t = "all") /\ k \in directPins

\* Variant: the scan's queue is built with the ceiling of the walks.
ScanCeiling_shared == WALK_DAG_CONCURRENCY_LIMIT

\* The ceiling the queue of the scan is constructed with.
ScanCeiling == IS_PINNED_WITH_TYPE_CONCURRENCY_LIMIT

\* The candidate handed to hasDescendant for the root childKey.
ScanCandidate(k, childKey) == childKey

Answer(k, t, p, rt, rc, ts) ==
  [NoRet EXCEPT !.op = "isPinnedWithType", !.key = k, !.type = t,
                !.pinned = p, !.reasonType = rt, !.reasonCid = rc,
                !.resolved = TRUE, !.tested = ts]

\* The call up to its first suspension point: the answers from the two
\* sets, or the start of the scan (queue.addAll starts the first tasks).
IsPinnedWithType(k, t) ==
  /\ pc = "idle"
  /\ IF RecursiveHit(k, t)
       THEN ret' = Answer(k, t, TRUE, "recursive", NoCid, {})
            /\ UNCHANGED <<pc, walkVars>>
     ELSE IF t = "recursive"
       THEN ret' = Answer(k, t, FALSE, "", NoCid, {})
            /\ UNCHANGED <<pc, walkVars>>
     ELSE IF DirectHit(k, t)
       THEN ret' = Answer(k, t, TRUE, "direct", NoCid, {})
            /\ UNCHANGED <<pc, walkVars>>
     ELSE IF t = "direct"
       THEN ret' = Answer(k, t, FALSE, "", NoCid, {})
            /\ UNCHANGED <<pc, walkVars>>
     ELSE \E S \in SUBSET recursivePins :
            /\ Cardinality(S) = IF Cardinality(recursivePins) < ScanCeiling
                                  THEN Cardinality(recursivePins)
                                  ELSE ScanCeiling
            /\ pc' = "isPinnedWithType"
            /\ key' = k
            /\ type' = t
            /\ cid' = NoCid
            /\ pending' = [c \in CIDS |-> IF c \in S THEN 1 ELSE 0]
            /\ roots' = recursivePins \ S
            /\ tested' = {}
            /\ ret' = NoRet
            /\ UNCHANGED <<queue, ending, indirectKeys, failed, visits>>
  /\ UNCHANGED <<storeVars, env, directPins, recursivePins>>

\* One task of the scan completes: hasDescendant answers for root r.
HasDescendantDone(r) ==
  /\ pc = "isPinnedWithType"
  /\ pending[r] > 0
  /\ LET cand == ScanCandidate(key, r)
         has == HasDescendant(r, cand)
         waiting == IF has THEN {} ELSE roots     \* queue.clear()
         left == BagRemove(pending, r)
     IN /\ cid' = IF has THEN r ELSE cid
        /\ tested' = tested \cup {<<r, cand>>}
        /\ IF waiting = {}
             THEN pending' = left /\ roots' = {}
             ELSE \E n \in waiting :
                    pending' = BagAdd(left, n) /\ roots' = waiting \ {n}
  /\ UNCHANGED <<storeVars, env, directPins, recursivePins, pc, queue,
                 ending, indirectKeys, key, type, failed, visits, ret>>

\* One task of the scan fails: hasDescendant rejects for root r. The task
\* throws, the promise queue.addAll returned is rejected and nobody holds
\* it; the queue goes on with the next waiting root.
HasDescendantFail(r) ==
  /\ pc = "isPinnedWithType"
  /\ pending[r] > 0
  /\ failed' = TRUE
  /\ LET left == BagRemove(pending, r)
     IN IF roots = {}
          THEN pending' = left /\ roots' = {}
          ELSE \E n \in roots :
                 pending' = BagAdd(left, n) /\ roots' = roots \ {n}
  /\ UNCHANGED <<storeVars, env, directPins, recursivePins, pc, queue,
                 ending, indirectKeys, cid, key, type, tested, visits, ret>>

\* queue.onIdle() resolves: the answer of the scan.
ScanReturn ==
  /\ pc = "isPinnedWithType"
  /\ BagSize(pending) = 0
  /\ roots = {}
  /\ ret' = [Answer(key, type, cid # NoCid, "", cid, tested)
               EXCEPT !.failed = failed]
  /\ pc' = "idle"
  /\ key' = NoCid /\ type' = "" /\ cid' = NoCid /\ tested' = {}
  /\ failed' = FALSE
  /\ UNCHANGED <<storeVars, env, directPins, recursivePins, queue, ending,
                 pending, roots, indirectKeys, visits>>

----------------------------------------------------------------------------
\* _walkDag, getIndirectKeys, fetchCompleteDag

\* Variant: every visited node is recorded.
OnCid_noPreempt(c, keys) == keys \cup {c}

\* Variant: onCid keeps only the node it was last called with.
OnCid_lastOnly(c, keys) == IF c \notin recursivePins THEN {c} ELSE keys

\* onCid of getIndirectKeys: recursive pins pre-empt indirect pins.
OnCid(c, keys) == IF c \notin recursivePins THEN keys \cup {c} ELSE keys

\* _walkDag with one fetch at a time: the tasks in `todo` run in FIFO
\* order, each calling onCid and enqueueing the links of its node.
RECURSIVE WalkOneByOne(_, _)
WalkOneByOne(todo, keys) ==
  IF todo = <<>> THEN keys
  ELSE WalkOneByOne(Tail(todo) \o ChildTasks(Head(todo)),
                    OnCid(Head(todo), keys))

\* getIndirectKeys with one fetch at a time, over the roots rs in order.
RECURSIVE IndirectKeysOneByOne(_, _)
IndirectKeysOneByOne(rs, keys) ==
  IF rs = <<>> THEN keys
  ELSE IndirectKeysOneByOne(Tail(rs), WalkOneByOne(<<Head(rs)>>, keys))

GetIndirectKeys ==
  /\ pc = "idle"
  /\ pc' = "getIndirectKeys"
  /\ indirectKeys' = {}
  /\ roots' = recursivePins
  /\ failed' = FALSE
  /\ visits' = 0
  /\ ret' = NoRet
  /\ UNCHANGED <<storeVars, env, directPins, recursivePins, queue, ending,
                 pending, cid, key, type, tested>>

FetchCompleteDag(c) ==
  /\ pc = "idle"
  /\ pc' = "fetchCompleteDag"
  /\ pending' = BagAdd(EmptyBag, c)
  /\ cid' = c
  /\ failed' = FALSE
  /\ visits' = 0
  /\ ret' = NoRet
  /\ UNCHANGED <<storeVars, env, directPins, recursivePins, queue, ending,
                 roots, indirectKeys, key, type, tested>>

\* Variant: the walk waits for the queue to be empty, not idle.
WalkIdle_onEmpty == queue = <<>>

\* queue.onIdle() resolves: nothing queued and nothing running.
WalkIdle == queue = <<>> /\ BagSize(pending) = 0 /\ ending = 0

\* Variant: the for-loop does not await the walk of the previous root.
WalkDag_notAwaited ==
  /\ pc = "getIndirectKeys"
  /\ \E r \in roots :
       /\ roots' = roots \ {r}
       /\ pending' = BagAdd(pending, r)
  /\ UNCHANGED <<storeVars, env, directPins, recursivePins, pc, queue,
                 ending, indirectKeys, cid, key, type, failed, tested, visits,
                 ret>>

\* The for-loop of getIndirectKeys calls _walkDag for the next recursive key.
WalkDag ==
  /\ pc = "getIndirectKeys"
  /\ WalkIdle
  /\ \E r \in roots :
       /\ roots' = roots \ {r}
       /\ pending' = BagAdd(EmptyBag, r)
  /\ UNCHANGED <<storeVars, env, directPins, recursivePins, pc, queue,
                 ending, indirectKeys, cid, key, type, failed, tested, visits,
                 ret>>

\* Tasks for node d the queue holds, waiting or in flight.
TaskCount(q, p, d) == p[d] + Cardinality({i \in DOMAIN q : q[i] = d})

\* Tasks the queue counts as running.
PendingCount == BagSize(pending) + ending

\* A walk task whose dag.get succeeded: onCid, then the children are added
\* to the queue (which starts them while there is room); the task returns.
DagGetOk(c) ==
  /\ pc \in {"getIndirectKeys", "fetchCompleteDag"}
  /\ pending[c] > 0
  /\ indirectKeys' = IF pc = "getIndirectKeys" THEN OnCid(c, indirectKeys)
                     ELSE indirectKeys
  /\ LET s == StartQueued(queue \o ChildTasks(c), pending,
                          WALK_DAG_CONCURRENCY_LIMIT - ending)
     IN queue' = s[1] /\ pending' = BagRemove(s[2], c)
  /\ ending' = ending + 1
  /\ visits' = visits + 1
  /\ UNCHANGED <<storeVars, env, directPins, recursivePins, pc, roots, cid,
                 key, type, failed, tested, ret>>

\* Variant: onCid is called before the outcome of dag.get is known.
DagGetFail_reports(c) ==
  /\ pc \in {"getIndirectKeys", "fetchCompleteDag"}
  /\ pending[c] > 0
  /\ failed' = TRUE
  /\ indirectKeys' = IF pc = "getIndirectKeys" THEN OnCid(c, indirectKeys)
                     ELSE indirectKeys
  /\ pending' = BagRemove(pending, c)
  /\ ending' = ending + 1
  /\ UNCHANGED <<storeVars, env, directPins, recursivePins, pc, queue,
                 roots, cid, key, type, tested, visits, ret>>

\* A walk task whose dag.get was rejected: the task throws before onCid,
\* the promise queue.add returned is rejected and nobody holds it.
DagGetFail(c) ==
  /\ pc \in {"getIndirectKeys", "fetchCompleteDag"}
  /\ pending[c] > 0
  /\ failed' = TRUE
  /\ pending' = BagRemove(pending, c)
  /\ ending' = ending + 1
  /\ UNCHANGED <<storeVars, env, directPins, recursivePins, pc, queue,
                 roots, indirectKeys, cid, key, type, tested, visits, ret>>

\* p-queue (dependency), _next: the queue takes note that a task returned
\* or threw, and starts the next one.
TaskEnd ==
  /\ pc \in {"getIndirectKeys", "fetchCompleteDag"}
  /\ ending > 0
  /\ ending' = ending - 1
  /\ LET s == StartQueued(queue, pending,
                          WALK_DAG_CONCURRENCY_LIMIT - (ending - 1))
     IN queue' = s[1] /\ pending' = s[2]
  /\ UNCHANGED <<storeVars, env, directPins, recursivePins, pc, roots,
                 indirectKeys, cid, key, type, failed, tested, visits, ret>>

WalkResult(op, keys) ==
  [NoRet EXCEPT !.op = op, !.keys = keys, !.resolved = TRUE, !.failed = failed]

GetIndirectKeysReturn ==
  /\ pc = "getIndirectKeys"
  /\ WalkIdle
  /\ roots = {}
  /\ ret' = WalkResult("getIndirectKeys", indirectKeys)
  /\ pc' = "idle"
  /\ indirectKeys' = {}
  /\ failed' = FALSE
  /\ visits' = 0
  /\ UNCHANGED <<storeVars, env, directPins, recursivePins, queue, ending,
                 pending, roots, cid, key, type, tested>>

FetchCompleteDagReturn ==
  /\ pc = "fetchCompleteDag"
  /\ WalkIdle
  /\ ret' = WalkResult("fetchCompleteDag", {})
  /\ pc' = "idle"
  /\ cid' = NoCid
  /\ failed' = FALSE
  /\ visits' = 0
  /\ UNCHANGED <<storeVars, env, directPins, recursivePins, queue, ending,
                 pending, roots, indirectKeys, key, type, tested>>

----------------------------------------------------------------------------
\* flushPins, load, and the restart of the process

\* Bound of SpecStore: pin / unpin calls in one behaviour.
MaxMutations == 2

\* directKeys() / recursiveKeys(): the set in some iteration order.
Enumerations(S) ==
  {e \in [1..Cardinality(S) -> S] : \A i, j \in DOMAIN e : i # j => e[i] # e[j]}

DirectKeys == Enumerations(directPins)

RecursiveKeys == Enumerations(recursivePins)

\* Variant: the root node carries a number that changes with every put.
RootData_stamped == <<Cardinality(blocks)>>

\* new DAGNode(Buffer.alloc(0), [dLink, rLink])
RootData == <<>>

\* Variant: the recursive keys are read when the root node is built, after
\* the suspension of flushPins.
RootNode_lateRecursive(d, r) ==
  [kind |-> "root", items |-> RootData,
   sub |-> <<d, StoreSet(SortedSeq(recursivePins))>>]

RootNode(d, r) == [kind |-> "root", items |-> RootData, sub |-> <<d, r>>]

\* What the three branches of Promise.all store.
FlushNeeded == NodesOf(dLink) \cup NodesOf(rLink) \cup {EmptyNode}

\* Variant: the root is built without awaiting the three branches.
PromiseAllDone_notAwaited == TRUE

\* await Promise.all([...]) has resolved.
PromiseAllDone == FlushNeeded \subseteq blocks

Sets == [d |-> directPins, r |-> recursivePins]

Result(op, ok) ==
  [NoRet EXCEPT !.op = op, !.resolved = ok, !.failed = ~ok, !.fresh = fresh,
                !.before = IF pc \in {"idle", "getInternalBlocks"}
                             THEN Sets ELSE snap]

Fetched(r) == [r EXCEPT !.fetched = TRUE]

Failed(r, e) == [r EXCEPT !.error = e]

\* Variant: the sets are emptied once their keys are taken.
FlushPins_drains ==
  /\ pc = "idle"
  /\ \E dk \in DirectKeys, rk \in RecursiveKeys :
       /\ dLink' = StoreSet(dk)
       /\ rLink' = StoreSet(rk)
  /\ snap' = Sets
  /\ pc' = "flushPins"
  /\ ret' = NoRet
  /\ directPins' = {} /\ recursivePins' = {}
  /\ flush2' = NoFlush2
  /\ UNCHANGED <<env, walkVars, blocks, pinRoot, mh, loaded, flushed, fresh,
                 nmut>>

\* The call up to its first suspension point: both key arrays are taken
\* and handed to storeSet.
FlushPins ==
  /\ pc = "idle"
  /\ \E dk \in DirectKeys, rk \in RecursiveKeys :
       /\ dLink' = StoreSet(dk)
       /\ rLink' = StoreSet(rk)
  /\ snap' = Sets
  /\ pc' = "flushPins"
  /\ ret' = NoRet
  /\ flush2' = NoFlush2
  /\ UNCHANGED <<env, directPins, recursivePins, walkVars, blocks, pinRoot,
                 mh, loaded, flushed, fresh, nmut>>

\* One dag.put of the three branches: a bucket before the node linking it.
DagPut(n) ==
  /\ pc = "flushPins"
  /\ n \in FlushNeeded \ blocks
  /\ \A i \in DOMAIN n.sub : n.sub[i] = EmptyNode \/ n.sub[i] \in blocks
  /\ blocks' = blocks \cup {n}
  /\ UNCHANGED <<env, directPins, recursivePins, pc, walkVars, pinRoot,
                 dLink, rLink, mh, loaded, snap, flushed, fresh, nmut, flush2, ret>>

\* Variant: the key is written along with the root node.
PutRoot_writesKey ==
  /\ pc = "flushPins"
  /\ PromiseAllDone
  /\ blocks' = blocks \cup {RootNode(dLink, rLink)}
  /\ pinRoot' = RootNode(dLink, rLink)
  /\ pc' = "flushKey"
  /\ UNCHANGED <<env, directPins, recursivePins, walkVars, dLink,
                 rLink, mh, loaded, snap, flushed, fresh, nmut, flush2, ret>>

\* dag.put(rootNode)
PutRoot ==
  /\ pc = "flushPins"
  /\ PromiseAllDone
  /\ blocks' = blocks \cup {RootNode(dLink, rLink)}
  /\ pc' = "flushKey"
  /\ UNCHANGED <<env, directPins, recursivePins, walkVars, pinRoot, dLink,
                 rLink, mh, loaded, snap, flushed, fresh, nmut, flush2, ret>>

\* The awaits of flushPins that come before the datastore write.
FlushSteps == {"storeSet", "dag.put(empty)", "dag.put(root)"}

\* One of those awaits rejects: a branch of Promise.all while it is
\* pending, or the put of the root node after it; flushPins throws.
FlushPinsFail(step) ==
  /\ pc = "flushPins"
  /\ step = "dag.put(root)" => PromiseAllDone
  /\ pc' = "idle"
  /\ dLink' = NoRoot /\ rLink' = NoRoot /\ snap' = NoSnap
  /\ ret' = Failed(Result("flushPins", FALSE), step)
  /\ UNCHANGED <<env, directPins, recursivePins, walkVars, blocks, pinRoot,
                 mh, loaded, flushed, fresh, nmut, flush2>>

\* repo.datastore.put(PIN_DS_KEY, rootCid.buffer); flushPins returns.
DatastorePut ==
  /\ pc = "flushKey"
  /\ pinRoot' = RootNode(dLink, rLink)
  /\ flushed' = snap
  /\ pc' = "idle"
  /\ dLink' = NoRoot /\ rLink' = NoRoot /\ snap' = NoSnap
  /\ ret' = Result("flushPins", TRUE)
  /\ UNCHANGED <<env, directPins, recursivePins, walkVars, blocks, mh,
                 loaded, fresh, nmut, flush2>>

\* A second flushPins is called while the first is in progress.
Flush2Pins ==
  /\ pc \in {"flushPins", "flushKey"}
  /\ flush2.pc = "idle"
  /\ \E dk \in DirectKeys, rk \in RecursiveKeys :
       flush2' = [pc |-> "flushPins", dLink |-> StoreSet(dk),
                  rLink |-> StoreSet(rk), snap |-> Sets]
  /\ UNCHANGED <<env, directPins, recursivePins, pc, walkVars, blocks,
                 pinRoot, dLink, rLink, mh, loaded, snap, flushed, fresh,
                 nmut, ret>>

\* What the three branches of the second call's Promise.all store.
Flush2Needed ==
  NodesOf(flush2.dLink) \cup NodesOf(flush2.rLink) \cup {EmptyNode}

\* One dag.put of the second call's three branches.
Flush2DagPut(n) ==
  /\ flush2.pc = "flushPins"
  /\ n \in Flush2Needed \ blocks
  /\ \A i \in DOMAIN n.sub : n.sub[i] = EmptyNode \/ n.sub[i] \in blocks
  /\ blocks' = blocks \cup {n}
  /\ UNCHANGED <<env, directPins, recursivePins, pc, walkVars, pinRoot,
                 dLink, rLink, mh, loaded, snap, flushed, fresh, nmut, flush2,
                 ret>>

\* The second call's dag.put(rootNode).
Flush2PutRoot ==
  /\ flush2.pc = "flushPins"
  /\ Flush2Needed \subseteq blocks
  /\ blocks' = blocks \cup {RootNode(flush2.dLink, flush2.rLink)}
  /\ flush2' = [flush2 EXCEPT !.pc = "flushKey"]
  /\ UNCHANGED <<env, directPins, recursivePins, pc, walkVars, pinRoot,
                 dLink, rLink, mh, loaded, snap, flushed, fresh, nmut, ret>>

\* The second call's datastore.put; it returns.
Flush2DatastorePut ==
  /\ flush2.pc = "flushKey"
  /\ pinRoot' = RootNode(flush2.dLink, flush2.rLink)
  /\ flushed' = flush2.snap
  /\ flush2' = [flush2 EXCEPT !.pc = "done"]
  /\ UNCHANGED <<env, directPins, recursivePins, pc, walkVars, blocks,
                 dLink, rLink, mh, loaded, snap, fresh, nmut, ret>>

\* Variant: the two results of Promise.all are taken in the wrong order.
LoadedDirect_swapped(rootNode) == LoadSet(rootNode, "recursive")

LoadedDirect(rootNode) == LoadSet(rootNode, "direct")

\* Variant: the loaded keys are added to the set in memory.
LoadedRecursive_merged(rootNode) ==
  recursivePins \cup LoadSet(rootNode, "recursive")

LoadedRecursive(rootNode) == LoadSet(rootNode, "recursive")

\* Variant: a set is assigned as soon as its own loadSet has resolved.
DirectWhileLoading_eager(name) ==
  IF name = "direct" THEN LoadedDirect(mh) ELSE directPins

\* directPins while Promise.all of the two loadSet calls is pending.
DirectWhileLoading(name) == directPins

\* Variant: the key is read without asking datastore.has first.
HasPinRoot_skipped == TRUE

\* await this.repo.datastore.has(PIN_DS_KEY)
HasPinRoot == pinRoot # NoRoot

\* datastore.has / datastore.get of the pin root key; dag.get is called
\* for the root when there is one.
Load ==
  /\ pc = "idle"
  /\ IF ~HasPinRoot
       THEN ret' = Result("load", TRUE) /\ UNCHANGED <<pc, mh, snap>>
       ELSE pc' = "load" /\ mh' = pinRoot /\ snap' = Sets /\ ret' = NoRet
  /\ UNCHANGED <<env, directPins, recursivePins, walkVars, blocks, pinRoot,
                 dLink, rLink, loaded, flushed, fresh, nmut, flush2>>

\* dag.get of the root resolved: both loadSet calls are started.
LoadRoot ==
  /\ pc = "load"
  /\ mh \in blocks
  /\ pc' = "loadSets"
  /\ loaded' = {}
  /\ UNCHANGED <<env, directPins, recursivePins, walkVars, blocks, pinRoot,
                 dLink, rLink, mh, snap, flushed, fresh, nmut, flush2, ret>>

\* Variant: a load that cannot read the root deletes the key.
LoadFail_dropsKey ==
  /\ pc = "load"
  /\ ret' = Failed(Fetched(Result("load", FALSE)), "fetch")
  /\ pc' = "idle"
  /\ mh' = NoRoot /\ snap' = NoSnap
  /\ pinRoot' = NoRoot
  /\ UNCHANGED <<env, directPins, recursivePins, walkVars, blocks, dLink,
                 rLink, loaded, flushed, fresh, nmut, flush2>>

\* dag.get of the root was rejected: load throws before the assignments.
LoadFail ==
  /\ pc = "load"
  /\ ret' = Failed(Fetched(Result("load", FALSE)), "fetch")
  /\ pc' = "idle"
  /\ mh' = NoRoot /\ snap' = NoSnap
  /\ UNCHANGED <<env, directPins, recursivePins, walkVars, blocks, pinRoot,
                 dLink, rLink, loaded, flushed, fresh, nmut, flush2>>

\* One of the two loadSet calls has resolved.
LoadSetOk(name) ==
  /\ pc = "loadSets"
  /\ name \notin loaded
  /\ NodesOf(mh.sub[IF name = "direct" THEN 1 ELSE 2]) \subseteq blocks
  /\ loaded' = loaded \cup {name}
  /\ directPins' = DirectWhileLoading(name)
  /\ UNCHANGED <<env, recursivePins, pc, walkVars, blocks, pinRoot, dLink,
                 rLink, mh, snap, flushed, fresh, nmut, flush2, ret>>

\* One of the two loadSet calls was rejected (a fetch failed, or a node
\* could not be decoded): Promise.all is rejected and load throws.
LoadSetFail(name) ==
  /\ pc = "loadSets"
  /\ name \notin loaded
  /\ ret' = [Failed(Fetched(Result("load", FALSE)), "decode")
               EXCEPT !.decoded = loaded]
  /\ pc' = "idle"
  /\ mh' = NoRoot /\ snap' = NoSnap /\ loaded' = {}
  /\ UNCHANGED <<env, directPins, recursivePins, walkVars, blocks, pinRoot,
                 dLink, rLink, flushed, fresh, nmut, flush2>>

\* Variant: load suspends between the two assignments.
LoadDone_split ==
  /\ pc = "loadSets"
  /\ loaded = {"direct", "recursive"}
  /\ IF directPins # LoadedDirect(mh)
       THEN /\ directPins' = LoadedDirect(mh)
            /\ UNCHANGED <<recursivePins, ret, fresh, pc, mh, snap, loaded>>
       ELSE /\ recursivePins' = LoadedRecursive(mh)
            /\ ret' = Fetched(Result("load", TRUE))
            /\ fresh' = FALSE
            /\ pc' = "idle"
            /\ mh' = NoRoot /\ snap' = NoSnap /\ loaded' = {}
            /\ UNCHANGED directPins
  /\ UNCHANGED <<env, walkVars, blocks, pinRoot, dLink, rLink, flushed,
                 nmut, flush2>>

\* Both sets were decoded: the sets are replaced.
LoadDone ==
  /\ pc = "loadSets"
  /\ loaded = {"direct", "recursive"}
  /\ directPins' = LoadedDirect(mh)
  /\ recursivePins' = LoadedRecursive(mh)
  /\ ret' = Fetched(Result("load", TRUE))
  /\ fresh' = FALSE
  /\ pc' = "idle"
  /\ mh' = NoRoot /\ snap' = NoSnap /\ loaded' = {}
  /\ UNCHANGED <<env, walkVars, blocks, pinRoot, dLink, rLink, flushed,
                 nmut, flush2>>

\* --------------------------------------------------------------------------
\* getInternalBlocks

ERR_NOT_FOUND == "ERR_NOT_FOUND"

\* How datastore.get(PIN_DS_KEY) can end: with the value, with the not-found
\* error when the key is absent, or with another error (with or without a
\* code) at any time.
DsOutcomes ==
  (IF pinRoot = NoRoot THEN {ERR_NOT_FOUND} ELSE {"ok"})
    \cup {"ERR_DB", "undefined"}

\* Variant: no datastore error is taken for a missing key.
IsNotFound_never(code) == FALSE

\* Variant: every datastore error is taken for a missing key.
IsNotFound_always(code) == TRUE

\* err.code === ERR_NOT_FOUND
IsNotFound(code) == code = ERR_NOT_FOUND

DsWrapped == "Could not get pin sets root from datastore"

\* Variant: the root itself is left out of the result.
InternalBlocks_noRoot(cids, root) == cids

\* cids.concat(cid)
InternalBlocks(cids, root) == cids \cup {root}

GetInternalBlocks(code) ==
  /\ pc = "idle"
  /\ IF code = "ok"
       THEN /\ pc' = "getInternalBlocks"
            /\ mh' = pinRoot
            /\ ret' = NoRet
       ELSE /\ ret' = IF IsNotFound(code)
                        THEN [Result("getInternalBlocks", TRUE)
                                EXCEPT !.dsCode = code]
                        ELSE [Failed(Result("getInternalBlocks", FALSE),
                                     DsWrapped)
                                EXCEPT !.dsCode = code]
            /\ UNCHANGED <<pc, mh>>
  /\ UNCHANGED <<env, directPins, recursivePins, walkVars, blocks, pinRoot,
                 dLink, rLink, loaded, snap, flushed, fresh, nmut, flush2>>

\* dag.get of the root and getInternalCids resolved.
GetInternalBlocksDone ==
  /\ pc = "getInternalBlocks"
  /\ NodesOf(mh) \subseteq blocks
  /\ ret' = [Fetched(Result("getInternalBlocks", TRUE))
               EXCEPT !.dsCode = "ok",
                      !.nodes = InternalBlocks(GetInternalCids(mh), mh)]
  /\ pc' = "idle"
  /\ mh' = NoRoot
  /\ UNCHANGED <<env, directPins, recursivePins, walkVars, blocks, pinRoot,
                 dLink, rLink, loaded, snap, flushed, fresh, nmut, flush2>>

\* dag.get of the root, or a fetch of getInternalCids, was rejected.
GetInternalBlocksFail ==
  /\ pc = "getInternalBlocks"
  /\ ret' = [Failed(Fetched(Result("getInternalBlocks", FALSE)), "fetch")
               EXCEPT !.dsCode = "ok"]
  /\ pc' = "idle"
  /\ mh' = NoRoot
  /\ UNCHANGED <<env, directPins, recursivePins, walkVars, blocks, pinRoot,
                 dLink, rLink, loaded, snap, flushed, fresh, nmut, flush2>>

\* --------------------------------------------------------------------------
\* checkPinType

\* Values handed to checkPinType: strings (the four types, the empty
\* string, a type in capitals, the name of an inherited property, another
\* word) and values that are not strings (a String object, undefined, a
\* number), each with the text it prints as.
TypeInputs ==
  {[isString |-> TRUE, text |-> t] :
     t \in PinTypes \cup {"", "Direct", "constructor", "bogus"}}
    \cup {[isString |-> FALSE, text |-> t] : t \in {"direct", "undefined", "42"}}

\* Variant: membership is tested with `in`, which sees inherited properties.
ValidPinType_in(t) ==
  t.isString /\ t.text \in PinTypes \cup {"constructor"}

\* typeof type === 'string' && Object.keys(PinTypes).includes(type)
ValidPinType(t) == t.isString /\ t.text \in PinTypes

ERR_INVALID_PIN_TYPE == "ERR_INVALID_PIN_TYPE"

\* invalidPinTypeErr(type)
InvalidPinTypeErr(t) == ERR_INVALID_PIN_TYPE

\* The error, if any, is returned, not thrown.
CheckPinType(t) ==
  /\ pc = "idle"
  /\ ret' = [Result("checkPinType", TRUE)
               EXCEPT !.arg = t,
                      !.error = IF ValidPinType(t) THEN ""
                                ELSE InvalidPinTypeErr(t)]
  /\ UNCHANGED <<env, directPins, recursivePins, pc, walkVars, storeVars>>

----------------------------------------------------------------------------
\* addAll (part_000): the import pipeline, the GC read lock and pinFile

\* Bound: entries of the source of one addAll call.
MaxEntries == 2

\* A path is its sequence of segments: <<>> is '' (the wrapping directory),
\* one segment a root of the add, more a nested entry ("a/b").
EntryPaths == {<<>>, <<"a">>, <<"a", "b">>}

Entries == [path : EntryPaths, cid : CIDS]

Sources == UNION {[1..n -> Entries] : n \in 0..MaxEntries}

\* options.pin (absent, true or false) and options.onlyHash.
AddOptions == [pin : {"absent", "true", "false"}, onlyHash : BOOLEAN]

NoFile == [path |-> <<>>, cid |-> NoCid]

\* locks: GC read locks held; released: calls of releaseLock; imports:
\* whether the lock was held at the imports so far; pins: the pin.add calls;
\* out: the entries yielded to the consumer; end: how the iteration ended.
NoAdd == [pc |-> "idle", opts |-> [pin |-> "absent", onlyHash |-> FALSE],
          source |-> <<>>, file |-> NoFile, locks |-> 0, released |-> 0,
          imports |-> {}, pins |-> <<>>, out |-> <<>>, end |-> ""]

\* file.path.includes('/')
IncludesSlash(path) == Len(path) >= 2

\* Variant: an absent pin option counts as false.
ShouldPin_absentFalse(opts, file) ==
  /\ opts.pin = "true"
  /\ ~IncludesSlash(file.path)
  /\ ~opts.onlyHash

\* pinFile: (opts.pin == null ? true : opts.pin) && isRootDir && !opts.onlyHash
ShouldPin(opts, file) ==
  /\ IF opts.pin = "absent" THEN TRUE ELSE opts.pin = "true"
  /\ ~IncludesSlash(file.path)
  /\ ~opts.onlyHash

\* The finally block of addAll: releaseLock(), and the generator is over.
Finally(a, how) ==
  [a EXCEPT !.pc = "done", !.locks = @ - 1, !.released = @ + 1,
            !.file = NoFile, !.end = how]

\* `yield file` of pinFile, then `yield added` of addAll.
Yield(a, pinned) ==
  [a EXCEPT !.pc = "yielded", !.file = NoFile,
            !.out = Append(@, [path |-> a.file.path, cid |-> a.file.cid,
                               pinned |-> pinned])]

\* The consumer asks for the first entry: the pipeline is built (nothing
\* runs yet) and gcLock.readLock() is awaited. A behaviour follows one
\* call: calls share nothing but the lock, which each takes for itself.
AddAll ==
  /\ adding.pc = "idle"
  /\ \E opts \in AddOptions, source \in Sources :
       adding' = [NoAdd EXCEPT !.pc = "locking", !.opts = opts,
                               !.source = source]
  /\ UNCHANGED <<links, directPins, recursivePins, pc, walkVars, storeVars,
                 ret>>

\* gcLock.readLock() resolved with releaseLock.
ReadLock ==
  /\ adding.pc = "locking"
  /\ adding' = [adding EXCEPT !.pc = "pull", !.locks = @ + 1]
  /\ UNCHANGED <<links, directPins, recursivePins, pc, walkVars, storeVars,
                 ret>>

\* pin.add(file.cid, { preload: false, lock: false }) is called.
PinCall(a) ==
  [a EXCEPT !.pc = "pinning",
            !.pins = Append(@, [cid |-> a.file.cid, lock |-> FALSE,
                                held |-> a.locks > 0])]

\* Variant: the consumer's return leaves the generator without the
\* finally block.
ConsumerReturn_noFinally ==
  /\ adding.pc = "yielded"
  /\ adding' = [adding EXCEPT !.pc = "done", !.end = "returned"]
  /\ UNCHANGED <<links, directPins, recursivePins, pc, walkVars, storeVars,
                 ret>>

\* The importer yields the next entry; it passes transformFile and
\* preloadFile and reaches pinFile, which pins it or yields it at once.
Import ==
  /\ adding.pc = "pull"
  /\ adding.source # <<>>
  /\ LET a == [adding EXCEPT !.file = Head(adding.source),
                             !.source = Tail(@),
                             !.imports = @ \cup {adding.locks > 0}]
     IN adding' = IF ShouldPin(a.opts, a.file) THEN PinCall(a)
                  ELSE Yield(a, FALSE)
  /\ UNCHANGED <<links, directPins, recursivePins, pc, walkVars, storeVars,
                 ret>>

\* The importer throws: the error leaves the for-await through finally.
ImportFail ==
  /\ adding.pc = "pull"
  /\ adding.source # <<>>
  /\ adding' = Finally(adding, "threw")
  /\ UNCHANGED <<links, directPins, recursivePins, pc, walkVars, storeVars,
                 ret>>

\* The source is exhausted: the for-await ends.
ImportEnd ==
  /\ adding.pc = "pull"
  /\ adding.source = <<>>
  /\ adding' = Finally(adding, "completed")
  /\ UNCHANGED <<links, directPins, recursivePins, pc, walkVars, storeVars,
                 ret>>

\* await pin.add(...) resolved: the entry is yielded.
PinFileOk ==
  /\ adding.pc = "pinning"
  /\ adding' = Yield(adding, TRUE)
  /\ UNCHANGED <<links, directPins, recursivePins, pc, walkVars, storeVars,
                 ret>>

\* await pin.add(...) rejected: the error leaves through finally.
PinFileFail ==
  /\ adding.pc = "pinning"
  /\ adding' = Finally(adding, "threw")
  /\ UNCHANGED <<links, directPins, recursivePins, pc, walkVars, storeVars,
                 ret>>

\* The consumer asks for the next entry.
ConsumerNext ==
  /\ adding.pc = "yielded"
  /\ adding' = [adding EXCEPT !.pc = "pull"]
  /\ UNCHANGED <<links, directPins, recursivePins, pc, walkVars, storeVars,
                 ret>>

\* The consumer stops early (break / return): the generator is resumed
\* with a return at `yield added` and runs its finally block.
ConsumerReturn ==
  /\ adding.pc = "yielded"
  /\ adding' = Finally(adding, "returned")
  /\ UNCHANGED <<links, directPins, recursivePins, pc, walkVars, storeVars,
                 ret>>

\* The process stops at any point and a new PinManager is constructed on
\* the same repo: memory is lost, the datastore and the blocks stay.
Restart ==
  /\ directPins' = {}
  /\ recursivePins' = {}
  /\ pc' = "idle"
  /\ dLink' = NoRoot /\ rLink' = NoRoot /\ snap' = NoSnap /\ mh' = NoRoot
  /\ loaded' = {}
  /\ fresh' = TRUE
  /\ ret' = NoRet
  /\ queue' = <<>> /\ pending' = EmptyBag /\ ending' = 0 /\ roots' = {}
  /\ indirectKeys' = {} /\ cid' = NoCid /\ key' = NoCid /\ type' = ""
  /\ failed' = FALSE /\ tested' = {} /\ visits' = 0
  /\ flush2' = NoFlush2
  /\ UNCHANGED <<env, blocks, pinRoot, flushed, nmut>>

\* SpecStore: pin / unpin, also while a flush is suspended.
StorePinAdd(c, t) ==
  /\ pc \in {"idle", "flushPins", "flushKey"}
  /\ nmut < MaxMutations
  /\ nmut' = nmut + 1
  /\ AddPin(c, t)
  /\ UNCHANGED <<env, pc, walkVars, blocks, pinRoot, dLink, rLink, mh,
                 loaded, snap, flushed, flush2>>

StorePinRm(c, t) ==
  /\ pc \in {"idle", "flushPins", "flushKey"}
  /\ nmut < MaxMutations
  /\ nmut' = nmut + 1
  /\ RmPin(c, t)
  /\ UNCHANGED <<env, pc, walkVars, blocks, pinRoot, dLink, rLink, mh,
                 loaded, snap, flushed, flush2>>

----------------------------------------------------------------------------
\* Spec, SpecWalk: a fresh manager over an arbitrary acyclic DAG

Init ==
  /\ links \in {l \in [CIDS -> SUBSET CIDS] : \A c \in CIDS : \A d \in l[c] : d > c}
  /\ directPins = {}
  /\ recursivePins = {}
  /\ pc = "idle"
  /\ queue = <<>>
  /\ pending = EmptyBag
  /\ ending = 0
  /\ roots = {}
  /\ indirectKeys = {}
  /\ cid = NoCid
  /\ key = NoCid
  /\ type = ""
  /\ failed = FALSE
  /\ tested = {}
  /\ visits = 0
  /\ blocks = {}
  /\ pinRoot = NoRoot
  /\ dLink = NoRoot
  /\ rLink = NoRoot
  /\ mh = NoRoot
  /\ loaded = {}
  /\ snap = NoSnap
  /\ flushed = NoSnap
  /\ fresh = TRUE
  /\ nmut = 0
  /\ flush2 = NoFlush2
  /\ adding = NoAdd
  /\ ret = NoRet

\* Spec: pin / unpin and the isPinnedWithType queries.
Next ==
  \/ \E c \in CIDS, t \in {"direct", "recursive"} : PinAdd(c, t)
  \/ \E c \in CIDS, t \in {"direct", "recursive"} : PinRm(c, t)
  \/ \E k \in CIDS, t \in PinTypes : IsPinnedWithType(k, t)
  \/ \E r \in CIDS : HasDescendantDone(r)
  \/ \E r \in CIDS : HasDescendantFail(r)
  \/ ScanReturn

Spec == Init /\ [][Next]_vars

\* SpecWalk: pin / unpin and the walks of getIndirectKeys and
\* fetchCompleteDag.
NextWalk ==
  \/ \E c \in CIDS, t \in {"direct", "recursive"} : PinAdd(c, t)
  \/ \E c \in CIDS, t \in {"direct", "recursive"} : PinRm(c, t)
  \/ GetIndirectKeys
  \/ \E c \in CIDS : FetchCompleteDag(c)
  \/ WalkDag
  \/ \E c \in CIDS : DagGetOk(c)
  \/ \E c \in CIDS : DagGetFail(c)
  \/ TaskEnd
  \/ GetIndirectKeysReturn
  \/ FetchCompleteDagReturn

SpecWalk == Init /\ [][NextWalk]_vars

\* The walks under the scheduling of the event loop: a dag.get in flight
\* settles (resolved or rejected), a settled task is taken note of by the
\* queue, and a continuation whose promise resolved runs.
WalkFairness ==
  /\ WF_vars(\E c \in CIDS : DagGetOk(c) \/ DagGetFail(c))
  /\ WF_vars(TaskEnd)
  /\ WF_vars(WalkDag)
  /\ WF_vars(GetIndirectKeysReturn)
  /\ WF_vars(FetchCompleteDagReturn)

\* The walks read recursivePins only: the fair specification leaves the
\* direct pins out.
NextWalkFair ==
  \/ \E c \in CIDS : PinAdd(c, "recursive")
  \/ \E c \in CIDS : PinRm(c, "recursive")
  \/ GetIndirectKeys
  \/ \E c \in CIDS : FetchCompleteDag(c)
  \/ WalkDag
  \/ \E c \in CIDS : DagGetOk(c)
  \/ \E c \in CIDS : DagGetFail(c)
  \/ TaskEnd
  \/ GetIndirectKeysReturn
  \/ FetchCompleteDagReturn

SpecWalkFair == Init /\ [][NextWalkFair]_vars /\ WalkFairness

\* SpecStore: a fresh repo; the DAG of user content plays no part.
InitStore == Init /\ links = [c \in CIDS |-> {}]

NextStore ==
  \/ \E c \in CIDS, t \in {"direct", "recursive"} : StorePinAdd(c, t)
  \/ \E c \in CIDS, t \in {"direct", "recursive"} : StorePinRm(c, t)
  \/ FlushPins
  \/ \E n \in FlushNeeded : DagPut(n)
  \/ PutRoot
  \/ \E step \in FlushSteps : FlushPinsFail(step)
  \/ DatastorePut
  \/ Load
  \/ LoadRoot
  \/ LoadFail
  \/ \E name \in {"direct", "recursive"} : LoadSetOk(name)
  \/ \E name \in {"direct", "recursive"} : LoadSetFail(name)
  \/ LoadDone
  \/ \E code \in DsOutcomes : GetInternalBlocks(code)
  \/ GetInternalBlocksDone
  \/ GetInternalBlocksFail
  \/ Restart

SpecStore == InitStore /\ [][NextStore]_vars

\* Two flushPins calls that overlap, with pins and unpins between and
\* during them.
NextFlushes ==
  \/ \E c \in CIDS, t \in {"direct", "recursive"} : StorePinAdd(c, t)
  \/ \E c \in CIDS, t \in {"direct", "recursive"} : StorePinRm(c, t)
  \/ FlushPins
  \/ \E n \in FlushNeeded : DagPut(n)
  \/ PutRoot
  \/ DatastorePut
  \/ Flush2Pins
  \/ \E n \in Flush2Needed : Flush2DagPut(n)
  \/ Flush2PutRoot
  \/ Flush2DatastorePut

SpecFlushes == InitStore /\ [][NextFlushes]_vars

\* One addAll call, over every source and option.
NextAdd ==
  \/ AddAll
  \/ ReadLock
  \/ Import
  \/ ImportFail
  \/ ImportEnd
  \/ PinFileOk
  \/ PinFileFail
  \/ ConsumerNext
  \/ ConsumerReturn

SpecAdd == InitStore /\ [][NextAdd]_vars

\* SpecAll: every operation of the manager, over a repo whose DAG links
\* every node to all later ones.
InitAll == Init /\ links = [c \in CIDS |-> {d \in CIDS : d > c}]

NextAll ==
  \/ \E c \in CIDS, t \in {"direct", "recursive"} : StorePinAdd(c, t)
  \/ \E c \in CIDS, t \in {"direct", "recursive"} : StorePinRm(c, t)
  \/ FlushPins
  \/ \E n \in FlushNeeded : DagPut(n)
  \/ PutRoot
  \/ \E step \in FlushSteps : FlushPinsFail(step)
  \/ DatastorePut
  \/ Load
  \/ LoadRoot
  \/ LoadFail
  \/ \E name \in {"direct", "recursive"} : LoadSetOk(name)
  \/ \E name \in {"direct", "recursive"} : LoadSetFail(name)
  \/ LoadDone
  \/ \E code \in DsOutcomes : GetInternalBlocks(code)
  \/ GetInternalBlocksDone
  \/ GetInternalBlocksFail
  \/ Restart
  \/ \E k \in CIDS, t \in PinTypes : IsPinnedWithType(k, t)
  \/ \E r \in CIDS : HasDescendantDone(r)
  \/ \E r \in CIDS : HasDescendantFail(r)
  \/ ScanReturn
  \/ GetIndirectKeys
  \/ \E c \in CIDS : FetchCompleteDag(c)
  \/ WalkDag
  \/ \E c \in CIDS : DagGetOk(c)
  \/ \E c \in CIDS : DagGetFail(c)
  \/ TaskEnd
  \/ GetIndirectKeysReturn
  \/ FetchCompleteDagReturn
  \/ \E t \in TypeInputs : CheckPinType(t)

SpecAll == InitAll /\ [][NextAll]_vars

----------------------------------------------------------------------------
\* Properties

IsAnswer == ret.op = "isPinnedWithType"

\* C1: a 'recursive' query answers pinned exactly when the key is in
\* recursivePins and a 'direct' query exactly when it is in directPins,
\* each whatever the other set holds.
C1_TypeQueriesMatchSets ==
  IsAnswer =>
    /\ ret.type = "recursive" => (ret.pinned <=> ret.key \in recursivePins)
    /\ ret.type = "direct" => (ret.pinned <=> ret.key \in directPins)

\* A key held in both sets was answered pinned by the 'direct' query.
C1_Witness ==
  /\ IsAnswer /\ ret.type = "direct" /\ ret.pinned
  /\ ret.key \in directPins \cap recursivePins

\* C2: a key in neither set that lies below a recursive root is answered
\* pinned by 'indirect' and 'all', the reason being a recursive root it
\* lies below.
C2_IndirectAnsweredWithRoot ==
  ( /\ IsAnswer /\ ret.type \in {"indirect", "all"}
    /\ ret.key \notin directPins \cup recursivePins
    /\ \E r \in recursivePins : ret.key \in Descendants(r) )
  => /\ ret.pinned
     /\ ret.reasonCid \in recursivePins
     /\ ret.key \in Descendants(ret.reasonCid)

\* C3: a key in neither set and below no recursive root is answered not
\* pinned by 'all', and by then hasDescendant was asked about that key for
\* every recursive root.
C3_UnreachableAfterAllRoots ==
  ( /\ IsAnswer /\ ret.type = "all"
    /\ ret.key \notin directPins \cup recursivePins
    /\ ret.key \notin Reachable(recursivePins) )
  => /\ ~ret.pinned
     /\ \A r \in recursivePins : <<r, ret.key>> \in ret.tested

\* C4: a key in recursivePins is answered with reason 'recursive', never
\* with a root CID, by the 'indirect' and the 'all' query.
C4_RecursiveNeverIndirect ==
  (IsAnswer /\ ret.type \in {"indirect", "all"} /\ ret.key \in recursivePins)
  => ret.reasonType = "recursive" /\ ret.reasonCid = NoCid

\* C5: when no fetch failed, getIndirectKeys returns exactly the nodes
\* reachable from the recursive pins, less the recursive pins themselves.
C5_IndirectKeysExact ==
  (ret.op = "getIndirectKeys" /\ ~ret.failed)
  => ret.keys = Reachable(recursivePins) \ recursivePins

\* getIndirectKeys returned a node two or more links below every root.
C5_Witness ==
  /\ ret.op = "getIndirectKeys" /\ ~ret.failed
  /\ \E k \in ret.keys : k \notin UNION {links[r] : r \in recursivePins}

\* C6: getIndirectKeys never returns a member of recursivePins, whether
\* fetches failed or not.
C6_NoRecursiveInIndirect ==
  ret.op = "getIndirectKeys" => ret.keys \cap recursivePins = {}

\* getIndirectKeys returned keys while one recursive root lay below another.
C6_Witness ==
  /\ ret.op = "getIndirectKeys" /\ ~ret.failed /\ ret.keys # {}
  /\ \E r1, r2 \in recursivePins : r2 \in Descendants(r1)

\* C7: a load that finds a pin root leaves directPins and recursivePins
\* equal to the sets held when the last completed flushPins was called.
C7_LoadRestoresFlushed ==
  (ret.op = "load" /\ ret.resolved /\ pinRoot # NoRoot)
  => directPins = flushed.d /\ recursivePins = flushed.r

\* A manager fresh after a restart loaded a key held in both sets.
C7_Witness ==
  /\ ret.op = "load" /\ ret.resolved /\ ret.fresh
  /\ directPins \cap recursivePins # {}

\* C8: the pin root key is absent or holds a root all of whose nodes (both
\* set encodings, the empty node, the root node) are stored.
C8_RootAlwaysStored == pinRoot = NoRoot \/ NodesOf(pinRoot) \subseteq blocks

\* After a restart in the middle of a later flush: the key holds the earlier
\* root while a set node no stored root links is among the blocks.
C8_Witness ==
  /\ fresh /\ pinRoot # NoRoot
  /\ \E n \in blocks :
       /\ n.kind = "set"
       /\ \A r \in blocks : r.kind = "root" => n \notin NodesOf(r)

\* C9: a flushPins called with the sets the last completed flushPins was
\* called with writes the root that the key already holds.
C9_FlushIdempotent ==
  [][(pc = "flushKey" /\ snap = flushed /\ pinRoot # NoRoot)
       => pinRoot' = pinRoot]_vars

\* A repeated flush of two or more direct pins is about to write the key.
C9_Witness ==
  /\ pc = "flushKey" /\ snap = flushed /\ pinRoot # NoRoot
  /\ Cardinality(snap.d) > MaxItems
  /\ directPins = snap.d /\ recursivePins = snap.r

\* C10: a getIndirectKeys or fetchCompleteDag during which a dag.get was
\* rejected does not resolve.
C10_FailedWalkRejects ==
  (ret.op \in {"getIndirectKeys", "fetchCompleteDag"} /\ ret.failed)
  => ~ret.resolved

\* C11: a load that fails (the root could not be fetched, or one of the two
\* sets could not be loaded) ends with an error and leaves directPins and
\* recursivePins as they were when load was called.
C11_FailedLoadKeepsSets ==
  (ret.op = "load" /\ ret.failed)
  => ~ret.resolved /\ ret.error # "" /\ Sets = ret.before

\* The direct set was loaded and differs from the one in memory, then the
\* recursive set could not be loaded.
C11_Witness ==
  /\ ret.op = "load" /\ ret.failed /\ ret.error = "decode"
  /\ ret.decoded = {"direct"}
  /\ pinRoot # NoRoot /\ directPins # {}
  /\ LoadSet(pinRoot, "direct") # directPins

\* C12: a load on a datastore without the pin root key resolves without
\* calling dag.get and leaves both sets as they were (empty on a fresh
\* manager).
C12_LoadWithoutKey ==
  (ret.op = "load" /\ pinRoot = NoRoot)
  => /\ ret.resolved /\ ~ret.failed /\ ~ret.fetched
     /\ Sets = ret.before
     /\ ret.fresh => Sets = NoSnap

\* load found no key on a manager that holds pins.
C12_Witness ==
  /\ ret.op = "load" /\ pinRoot = NoRoot
  /\ directPins # {} /\ recursivePins # {}

\* C13: after a load that found a pin root both sets are the persisted
\* ones: a key that was only in memory is gone, a persisted key that was
\* missing from memory is back.
C13_LoadReplacesSets ==
  (ret.op = "load" /\ ret.resolved /\ pinRoot # NoRoot)
  => /\ Sets = flushed
     /\ (ret.before.d \ flushed.d) \cap directPins = {}
     /\ (ret.before.r \ flushed.r) \cap recursivePins = {}
     /\ flushed.d \subseteq directPins
     /\ flushed.r \subseteq recursivePins

\* A manager that was not fresh loaded: a key only in memory and a key only
\* persisted.
C13_Witness ==
  /\ ret.op = "load" /\ ret.resolved /\ ~ret.fresh /\ pinRoot # NoRoot
  /\ \/ ret.before.d \ flushed.d # {} /\ flushed.d \ ret.before.d # {}
     \/ ret.before.r \ flushed.r # {} /\ flushed.r \ ret.before.r # {}

\* C14: getInternalBlocks whose datastore read reports the key missing
\* resolves with no block and without calling dag.get.
C14_NoRootNoBlocks ==
  (ret.op = "getInternalBlocks" /\ ret.dsCode = ERR_NOT_FOUND)
  => ret.resolved /\ ~ret.failed /\ ret.nodes = {} /\ ~ret.fetched

\* getInternalBlocks returned for a key that was never written, on a
\* manager that holds pins.
C14_Witness ==
  /\ ret.op = "getInternalBlocks" /\ ret.dsCode = ERR_NOT_FOUND
  /\ pinRoot = NoRoot /\ directPins # {}

\* C15: getInternalBlocks whose datastore read fails with anything but
\* not-found fails with the wrapped "could not get pin sets root" error and
\* returns nothing.
C15_DatastoreErrorWrapped ==
  (ret.op = "getInternalBlocks" /\ ret.dsCode \notin {"ok", ERR_NOT_FOUND})
  => ret.failed /\ ~ret.resolved /\ ret.error = DsWrapped /\ ret.nodes = {}

\* The datastore read failed with an error without a code while the key was
\* written.
C15_Witness ==
  /\ ret.op = "getInternalBlocks" /\ ret.error = DsWrapped
  /\ ret.dsCode = "undefined" /\ pinRoot # NoRoot

\* C16: a getInternalBlocks that resolves after a flushPins returns the
\* root the key holds and every node of the two set encodings below it, the
\* empty node included.
C16_InternalBlocksCoverFlush ==
  (ret.op = "getInternalBlocks" /\ ret.resolved /\ pinRoot # NoRoot)
  => ret.nodes = NodesOf(pinRoot) /\ pinRoot \in ret.nodes

\* The result holds the root, a set node with buckets and a bucket.
C16_Witness ==
  /\ ret.op = "getInternalBlocks" /\ ret.resolved /\ pinRoot \in ret.nodes
  /\ \E n \in ret.nodes :
       /\ n.kind = "set" /\ n.sub # <<>>
       /\ \E i \in DOMAIN n.sub : n.sub[i].kind = "set" /\ n.sub[i] \in ret.nodes

\* C17: checkPinType returns no error exactly when its argument is one of
\* the strings 'direct', 'recursive', 'indirect', 'all', and the
\* invalid-pin-type error for every other value; the call leaves the pin
\* sets, the stored blocks and the pin root key as they are.
C17_CheckPinType ==
  [][ret'.op = "checkPinType"
       => /\ ret'.resolved
          /\ ret'.error \in {"", "ERR_INVALID_PIN_TYPE"}
          /\ ret'.error = ""
               <=> /\ ret'.arg.isString
                   /\ ret'.arg.text \in {"direct", "recursive", "indirect", "all"}
          /\ UNCHANGED <<directPins, recursivePins, blocks, pinRoot>>]_vars

\* A String object reading 'direct' was refused on a manager with pins and
\* a written key.
C17_Witness ==
  /\ ret.op = "checkPinType" /\ ret.error = ERR_INVALID_PIN_TYPE
  /\ ~ret.arg.isString /\ ret.arg.text = "direct"
  /\ directPins # {} /\ pinRoot # NoRoot

\* C18: the pin root key changes only in the datastore write that ends a
\* flushPins; no other operation, no pin or unpin and no restart writes it,
\* so a pin or unpin not followed by flushPins is lost with the process.
C18_OnlyFlushWritesKey ==
  [][pinRoot' # pinRoot
       => /\ pc = "flushKey"
          /\ ret'.op = "flushPins"
          /\ pinRoot' = RootNode(dLink, rLink)]_vars

\* After two pin / unpin calls and a restart, load finds a single entry.
C18_Witness ==
  /\ ret.op = "load" /\ ret.resolved /\ ret.fresh /\ pinRoot # NoRoot
  /\ nmut = MaxMutations
  /\ Cardinality(directPins \cup recursivePins) = 1
  /\ directPins \cap recursivePins = {}

\* C19: of the manager's operations only load changes directPins or
\* recursivePins; every other change is a pin or unpin by the layer above,
\* or the construction of a new manager.
C19_OnlyLoadChangesSets ==
  [][(directPins' # directPins \/ recursivePins' # recursivePins)
       => \/ pc = "loadSets" /\ ret'.op = "load"
          \/ Restart
          \/ \E c \in CIDS, t \in {"direct", "recursive"} :
               StorePinAdd(c, t) \/ StorePinRm(c, t)]_vars

\* getIndirectKeys returned keys on a manager whose sets differ from the
\* persisted ones.
C19_Witness ==
  /\ ret.op = "getIndirectKeys" /\ ret.keys # {}
  /\ pinRoot # NoRoot /\ Sets # flushed /\ directPins # {}

\* C20: while a walk runs the queue counts at most
\* WALK_DAG_CONCURRENCY_LIMIT tasks as running, so no more dag.get calls
\* than that are in flight; a task waits in the queue only while the
\* ceiling is reached.
C20_WalkCeiling ==
  pc \in {"getIndirectKeys", "fetchCompleteDag"}
  => /\ BagSize(pending) <= PendingCount
     /\ PendingCount <= WALK_DAG_CONCURRENCY_LIMIT
     /\ queue # <<>> => PendingCount = WALK_DAG_CONCURRENCY_LIMIT

\* A task waits in the queue while a fetch is in flight and the queue
\* counts as many running tasks as the ceiling allows.
C20_Witness ==
  /\ pc \in {"getIndirectKeys", "fetchCompleteDag"}
  /\ queue # <<>>
  /\ BagSize(pending) >= 1
  /\ PendingCount = WALK_DAG_CONCURRENCY_LIMIT

----------------------------------------------------------------------------
\* C21: within one descendant scan of isPinnedWithType the root-scans in
\* flight never exceed the ceiling of the scan's own queue, and a root waits
\* only while that many are in flight (and no root has confirmed); the
\* ceiling is the scan's constant, not the walks'.
C21_ScanCeiling ==
  pc = "isPinnedWithType"
  => /\ BagSize(pending) <= IS_PINNED_WITH_TYPE_CONCURRENCY_LIMIT
     /\ roots # {} => BagSize(pending) = IS_PINNED_WITH_TYPE_CONCURRENCY_LIMIT

\* A scan over three recursive roots: two in flight, the third waiting.
C21_Witness ==
  /\ pc = "isPinnedWithType"
  /\ BagSize(pending) = IS_PINNED_WITH_TYPE_CONCURRENCY_LIMIT
  /\ roots # {}
  /\ Cardinality(recursivePins) > IS_PINNED_WITH_TYPE_CONCURRENCY_LIMIT
  /\ IS_PINNED_WITH_TYPE_CONCURRENCY_LIMIT # WALK_DAG_CONCURRENCY_LIMIT

C23_WalkTerminates ==
  /\ [][(pc \in {"getIndirectKeys", "fetchCompleteDag"} /\ pc' = "idle")
        => /\ queue = <<>> /\ BagSize(pending) = 0
           /\ ret'.resolved]_vars
  /\ [][( /\ pc = "fetchCompleteDag" /\ pc' = "idle"
          /\ ~failed /\ links[cid] = {} ) => visits = 1]_vars
  /\ (pc \in {"getIndirectKeys", "fetchCompleteDag"}) ~> (pc = "idle")

\* fetchCompleteDag of a root with grandchildren is about to resolve, having
\* got more nodes than the DAG has (a node is fetched once per path).
C23_Witness ==
  /\ pc = "fetchCompleteDag" /\ ~failed
  /\ queue = <<>> /\ BagSize(pending) = 0 /\ ending = 0
  /\ visits > NumCids

\* C24: the 'all' query looks into recursivePins first, then into
\* directPins, and scans only for a key in neither: a key in both sets is
\* answered 'recursive', a key only in directPins 'direct', and neither
\* answer comes after a hasDescendant call.
C24_AllOrder ==
  (IsAnswer /\ ret.type = "all")
  => /\ ret.key \in recursivePins
        => ret.pinned /\ ret.reasonType = "recursive" /\ ret.tested = {}
     /\ ret.key \in directPins \ recursivePins
        => ret.pinned /\ ret.reasonType = "direct" /\ ret.tested = {}
     /\ ret.tested # {} => ret.key \notin directPins \cup recursivePins

\* An 'all' query of a key in both sets answered while some other key is
\* only in directPins.
C24_Witness ==
  /\ IsAnswer /\ ret.type = "all" /\ ret.reasonType = "recursive"
  /\ ret.key \in directPins \cap recursivePins
  /\ directPins \ recursivePins # {}

\* C25: for a fixed DAG and fixed recursivePins, getIndirectKeys returns
\* the same set in whatever order the fetches complete: the set the walk
\* yields when it fetches one node at a time (no fetch being rejected).
C25_OrderIndependent ==
  (ret.op = "getIndirectKeys" /\ ~ret.failed)
  => ret.keys = IndirectKeysOneByOne(SortedSeq(recursivePins), {})

\* getIndirectKeys returned several keys from below a root with several
\* links, whose fetches were in flight together.
C25_Witness ==
  /\ ret.op = "getIndirectKeys" /\ ~ret.failed
  /\ Cardinality(ret.keys) >= 2
  /\ \E r \in recursivePins :
       Cardinality(links[r]) >= 2 /\ Descendants(r) \cap recursivePins = {}

\* C26: a scan in which some hasDescendant call was rejected does not
\* resolve with an answer: the call rejects.
C26_FailedScanSurfaced ==
  (IsAnswer /\ ret.failed) => ~ret.resolved

\* C27: the codec round-trips: the keys decoded from what storeSet built
\* for a set are exactly the keys of that set, none lost and none twice,
\* for the flat encoding and for the sharded one.
C27_CodecRoundTrip ==
  pc \in {"flushPins", "flushKey"}
  => /\ LoadSet(RootNode(dLink, rLink), "direct") = snap.d
     /\ LoadSet(RootNode(dLink, rLink), "recursive") = snap.r
     /\ Range(WalkItems(dLink)) = snap.d
     /\ Len(WalkItems(dLink)) = Cardinality(snap.d)
     /\ Range(WalkItems(rLink)) = snap.r
     /\ Len(WalkItems(rLink)) = Cardinality(snap.r)

\* A flush of a direct set above the threshold whose encoding has a
\* bucket that is itself sharded, after a flush of a flat one.
C27_Witness ==
  /\ pc = "flushPins"
  /\ Cardinality(snap.d) > MaxItems
  /\ \E i \in DOMAIN dLink.sub : dLink.sub[i].sub # <<>>
  /\ Cardinality(flushed.d) = MaxItems

\* C28: storeSet is deterministic: whatever the order in which the keys
\* of a set are handed to it, it builds the same node.
C28_StoreSetDeterministic ==
  pc \in {"flushPins", "flushKey"}
  => /\ \A e \in Enumerations(snap.d) : StoreSet(e) = dLink
     /\ \A e \in Enumerations(snap.r) : StoreSet(e) = rLink

\* A flush of a recursive set with several keys, hence several orders.
C28_Witness ==
  /\ pc = "flushKey"
  /\ Cardinality(snap.r) >= 2
  /\ Cardinality(Enumerations(snap.r)) >= 2

\* C29: from the call of flushPins until its datastore write the value
\* under the key does not change, and a flushPins that ends before that
\* write ends with the error of the await that rejected.
C29_FailedFlushKeepsKey ==
  [][(pc = "flushPins" \/ pc' = "flushPins")
     => /\ pinRoot' = pinRoot
        /\ (pc' = "idle" /\ ret'.op = "flushPins")
           => /\ ret'.failed /\ ~ret'.resolved
              /\ ret'.error \in FlushSteps]_vars

\* flushPins failed at the put of its root node, every pin-set node being
\* stored, while the key holds the root of other sets.
C29_Witness ==
  /\ ret.op = "flushPins" /\ ret.failed /\ ret.error = "dag.put(root)"
  /\ pinRoot # NoRoot
  /\ flushed # ret.before
  /\ LoadSet(pinRoot, "direct") = flushed.d
  /\ LoadSet(pinRoot, "recursive") = flushed.r

\* C30: flushPins takes the direct and the recursive keys at one and the
\* same instant, before it first suspends: the root a completed flushPins
\* left under the key encodes the pair of sets held when it was called,
\* whatever pins and unpins came while it was in progress.
C30_FlushSnapshot ==
  (ret.op = "flushPins" /\ ret.resolved)
  => /\ LoadSet(pinRoot, "direct") = ret.before.d
     /\ LoadSet(pinRoot, "recursive") = ret.before.r

\* A flushPins returned after a recursive pin was added while it was in
\* progress: the sets in memory are no longer the pair it was called with.
C30_Witness ==
  /\ ret.op = "flushPins" /\ ret.resolved
  /\ recursivePins # ret.before.r
  /\ directPins = ret.before.d
  /\ ret.before.d # {}

\* C31: load replaces the two sets in one step: while a load is in
\* progress both sets are still the ones held when it was called, and
\* once it has resolved both are the loaded ones; the new direct set is
\* never held together with the old recursive set.
C31_LoadAssignsBoth ==
  /\ pc \in {"load", "loadSets"} => Sets = snap
  /\ (ret.op = "load" /\ ret.resolved /\ ret.fetched)
     => /\ directPins = LoadSet(pinRoot, "direct")
        /\ recursivePins = LoadSet(pinRoot, "recursive")

\* A load resolved that changed the direct set and the recursive set.
C31_Witness ==
  /\ ret.op = "load" /\ ret.resolved /\ ret.fetched
  /\ ret.before.d # directPins
  /\ ret.before.r # recursivePins

\* C32: when two flushPins calls overlapped, the sets having changed
\* between their starts, and both have completed, the key holds the root
\* of the snapshot of the call that started later.
C32_LaterFlushWins ==
  ( /\ ret.op = "flushPins" /\ ret.resolved
    /\ flush2.pc = "done"
    /\ flush2.snap # ret.before )
  => /\ LoadSet(pinRoot, "direct") = flush2.snap.d
     /\ LoadSet(pinRoot, "recursive") = flush2.snap.r

\* C33: in a walk onCid is called for a node only in the step in which
\* the fetch of that node succeeds, and tasks for the children of a node
\* are added only in that step, after the callback; a step in which a
\* fetch fails reports nothing and adds no task.
C33_CallbackAfterFetch ==
  [][(pc \in {"getIndirectKeys", "fetchCompleteDag"} /\ pc' = pc)
     => IF visits' # visits
          THEN \E c \in CIDS :
                 /\ pending[c] > 0
                 /\ visits' = visits + 1
                 /\ indirectKeys' \subseteq indirectKeys \cup {c}
                 /\ \A d \in CIDS :
                      TaskCount(queue', pending', d)
                        = TaskCount(queue, pending, d)
                          - (IF d = c THEN 1 ELSE 0)
                          + (IF d \in links[c] THEN 1 ELSE 0)
          ELSE /\ indirectKeys' = indirectKeys
               /\ roots' = roots
                  => \A d \in CIDS : TaskCount(queue', pending', d)
                                       <= TaskCount(queue, pending, d)]_vars

\* getIndirectKeys returned after a fetch failed: some nodes were reported,
\* and a node below the failed fetch was not.
C33_Witness ==
  /\ ret.op = "getIndirectKeys" /\ ret.failed
  /\ ret.keys # {}
  /\ ret.keys # Reachable(recursivePins) \ recursivePins

\* C34: the walk keeps no visited set: when a walk in which no fetch
\* failed resolves, the nodes it got from dag.get number one per path
\* from its root (from each recursive root for getIndirectKeys), while
\* the key set holds each reported node once.
C34_OncePerPath ==
  [][( /\ pc \in {"getIndirectKeys", "fetchCompleteDag"} /\ pc' = "idle"
       /\ ~failed )
     => /\ visits = IF pc = "fetchCompleteDag" THEN PathsFrom({cid})
                                               ELSE PathsFrom(recursivePins)
        /\ pc = "getIndirectKeys"
           => /\ ret'.keys = Reachable(recursivePins) \ recursivePins
              /\ Cardinality(ret'.keys) <= visits]_vars

\* getIndirectKeys is about to resolve having collected a key that two
\* paths from a recursive root lead to: more fetches than nodes.
C34_Witness ==
  /\ pc = "getIndirectKeys" /\ ~failed /\ roots = {}
  /\ queue = <<>> /\ BagSize(pending) = 0 /\ ending = 0
  /\ \E r \in recursivePins, c \in indirectKeys : Paths(r, c) >= 2
  /\ visits > Cardinality(Reachable(recursivePins))

\* C35: getIndirectKeys walks the recursive roots one after another: the
\* walk of a root is started only when nothing of the previous walk is
\* queued or in flight, so the fetches in flight during one call never
\* exceed the ceiling of a single walk.
C35_RootsOneByOne ==
  [][pc' = "getIndirectKeys"
     => /\ BagSize(pending') <= WALK_DAG_CONCURRENCY_LIMIT
        /\ (pc = "getIndirectKeys" /\ roots' # roots)
           => /\ queue = <<>> /\ BagSize(pending) = 0 /\ ending = 0
              /\ BagSize(pending') = 1 /\ queue' = <<>>]_vars

\* The walk of one root has two fetches in flight while another recursive
\* root waits for its turn.
C35_Witness ==
  /\ pc = "getIndirectKeys"
  /\ roots # {} /\ roots # recursivePins
  /\ BagSize(pending) >= 2

C37_ReadLockAroundAdd ==
  /\ adding.locks \in {0, 1}
  /\ adding.imports \subseteq {TRUE}
  /\ \A i \in DOMAIN adding.pins :
       adding.pins[i].held /\ ~adding.pins[i].lock
  /\ adding.pc \in {"pull", "pinning", "yielded"}
     => adding.locks = 1 /\ adding.released = 0
  /\ adding.pc = "done" => adding.locks = 0 /\ adding.released = 1
  /\ adding.pc \in {"idle", "locking"}
     => adding.locks = 0 /\ adding.released = 0

\* The consumer stopped after the first entry, which had been pinned, with
\* entries left in the source: the lock was released once.
C37_Witness ==
  /\ adding.pc = "done" /\ adding.end = "returned"
  /\ adding.released = 1 /\ adding.locks = 0
  /\ adding.source # <<>>
  /\ Len(adding.pins) = 1

\* The cids of the yielded entries that were pinned, in the order yielded.
RECURSIVE PinnedOut(_)
PinnedOut(out) ==
  IF out = <<>> THEN <<>>
  ELSE IF Head(out).pinned THEN <<Head(out).cid>> \o PinnedOut(Tail(out))
  ELSE PinnedOut(Tail(out))

\* C38: addAll pins an entry iff the pin option is not false (absent counts
\* as true), onlyHash is not set and the entry's path contains no '/';
\* nested entries are never pinned, and a pinned root is pinned before it
\* is yielded: the pin.add calls made are those of the pinned entries
\* yielded so far, plus at most the one of the entry not yet yielded.
C38_PinsRootsBeforeYield ==
  LET pinned == PinnedOut(adding.out)
      ahead == Len(adding.pins) - Len(pinned)
  IN /\ \A i \in DOMAIN adding.out :
          adding.out[i].pinned
            <=> /\ adding.opts.pin # "false"
                /\ ~adding.opts.onlyHash
                /\ Len(adding.out[i].path) <= 1
     /\ ahead \in {0, 1}
     /\ \A i \in DOMAIN pinned : adding.pins[i].cid = pinned[i]
     /\ ahead = 1
        => \/ adding.pc = "pinning" /\ adding.pins[Len(adding.pins)].cid
                                         = adding.file.cid
           \/ adding.pc = "done" /\ adding.end = "threw"
     /\ adding.pc = "pinning"
        => ahead = 1 /\ Len(adding.file.path) <= 1

\* With the pin option absent, a root and a nested entry were yielded: the
\* root pinned, the nested entry not.
C38_Witness ==
  /\ adding.opts.pin = "absent"
  /\ Len(adding.out) = 2
  /\ Len(adding.out[1].path) = 1 /\ adding.out[1].pinned
  /\ Len(adding.out[2].path) = 2 /\ ~adding.out[2].pinned
  /\ Len(adding.pins) = 1 /\ adding.pins[1].cid = adding.out[1].cid

====
